---- MODULE Spec2Model ----
(***************************************************************************)
(* State-machine model of the core of splurge-tools:                       *)
(*   - StreamingTabularDataModel (splurge_tools/streaming_tabular_data_    *)
(*     model.py) and the in-memory TabularDataModel (jpy_tools/            *)
(*     tabular_data_model.py), built over the same source rows;            *)
(*   - DsvHelper.parse_stream (splurge_tools/dsv_helper.py);               *)
(*   - profile_values and the String converters (splurge_tools/            *)
(*     type_helper.py).                                                    *)
(* Text is modelled as a sequence of one-character strings, so that        *)
(* strip(), the whitespace regex and f"column_{i}" are computed.           *)
(***************************************************************************)
EXTENDS Integers, Sequences, FiniteSets, TLC

VARIABLES
    \* ---- StreamingTabularDataModel ----
    stream,             \* self._stream: the chunks the upstream iterator has yet to yield
    header_rows,        \* self._header_rows
    multi_row_headers,  \* self._multi_row_headers
    skip_empty_rows,    \* self._skip_empty_rows
    chunk_size,         \* self._chunk_size
    header_data,        \* self._header_data
    column_names,       \* self._column_names
    column_index_map,   \* self._column_index_map
    buffer,             \* self._buffer
    row_count,          \* self._row_count
    it_pc,              \* position of the __iter__ generator
    it_i,               \* index of the list iterator over self._buffer
    it_chunk,           \* rows of the generator's current chunk not yet visited
    column_types,       \* self._column_types
    handed,             \* the row object the consumer was handed last: its place in self._buffer
    \* ---- history (not program state) ----
    type_calls,         \* the column_type calls made so far, each with what it returned
    iterations,         \* the iterations started so far
    source,             \* every row the upstream iterator was created with, in order
    yielded,            \* rows handed to the consumer, with column_count at that moment
    fills,              \* number of random-access calls made so far
    \* ---- in-memory TabularDataModel over the same rows ----
    table,
    tb_call,            \* the last accessor call made on the table, with what it returned or raised
    \* ---- DsvHelper.parse_stream (a line is represented by its 1-based number) ----
    ps_lines,            \* number of lines in the file
    ps_skip_header_rows, \* skip_header_rows
    ps_skip_footer_rows, \* skip_footer_rows
    ps_chunk_size,       \* chunk_size
    ps_pos,              \* number of lines read from the file so far
    ps_buffer,           \* buffer: the deque of lines held back for the footer
    ps_pc,               \* position of the parse_stream generator
    ps_out,              \* the chunks yielded so far
    ps_delimiter,        \* delimiter
    ps_file,             \* the file object of `with open(...)`: unopened, open or closed
    ps_abandoned,        \* the consumer has stopped calling next() before exhaustion
    ps_held,             \* some object still refers to the generator
    \* ---- profile_values called on one list with and without incremental checks ----
    pv_values,           \* values, as runs of equal elements
    pv_trim,             \* trim
    pv_incremental,      \* result with use_incremental_typecheck=True
    pv_full,             \* result with use_incremental_typecheck=False
    \* ---- String.to_bool / to_int / to_float called on one value ----
    cv_value,            \* value
    cv_default,          \* default
    cv_trim,             \* trim
    cv_bool,             \* what to_bool returned or raised
    cv_int,              \* what to_int returned or raised
    cv_float,            \* what to_float returned or raised
    cv_type              \* what infer_type returned

svars == <<stream, header_rows, multi_row_headers, skip_empty_rows, chunk_size,
           header_data, column_names, column_index_map, buffer, row_count,
           it_pc, it_i, it_chunk, source, yielded, fills, table, tb_call,
           column_types, type_calls, handed, iterations>>

psvars == <<ps_lines, ps_skip_header_rows, ps_skip_footer_rows, ps_chunk_size,
            ps_pos, ps_buffer, ps_pc, ps_out, ps_delimiter, ps_file, ps_abandoned, ps_held>>

pvvars == <<pv_values, pv_trim, pv_incremental, pv_full>>

cvvars == <<cv_value, cv_default, cv_trim, cv_bool, cv_int, cv_float, cv_type>>

vars == <<svars, psvars, pvvars, cvvars>>

\* ------------------------------------------------------------------ bounds
MaxRows == 3
MaxHeaderRows == 2
MinChunkSize == 100
MaxFills == 1
MaxSkip == 2
ExtraLines == 3
ExtraChunkSize == 1
MaxRuns == 2
MaxTextLen == 3
MaxTypeCalls == 2
MaxIterations == 2
LargeExtra == 1

\* -------------------------------------------------------------------- text
Min(a, b) == IF a < b THEN a ELSE b
Max(a, b) == IF a > b THEN a ELSE b

SpaceChars == {" ", "\t", "\n"}

IsSpace(c) == c \in SpaceChars

RECURSIVE LStrip(_)
LStrip(s) == IF s # <<>> /\ IsSpace(Head(s)) THEN LStrip(Tail(s)) ELSE s

RECURSIVE RStrip(_)
RStrip(s) == IF s # <<>> /\ IsSpace(s[Len(s)]) THEN RStrip(SubSeq(s, 1, Len(s) - 1)) ELSE s

\* str.strip()
Strip(s) == RStrip(LStrip(s))

\* re.sub(r"\s+", " ", name)
RECURSIVE CollapseWs(_)
CollapseWs(s) ==
    IF s = <<>> THEN <<>>
    ELSE IF IsSpace(Head(s)) THEN <<" ">> \o CollapseWs(LStrip(s))
    ELSE <<Head(s)>> \o CollapseWs(Tail(s))

DigitChars == <<"0", "1", "2", "3", "4", "5", "6", "7", "8", "9">>

\* str(i) for i >= 0
RECURSIVE IntToStr(_)
IntToStr(n) ==
    IF n < Len(DigitChars) THEN <<DigitChars[n + 1]>>
    ELSE IntToStr(n \div Len(DigitChars)) \o <<DigitChars[(n % Len(DigitChars)) + 1]>>

\* f"column_{i}"
ColumnName(i) == <<"c", "o", "l", "u", "m", "n", "_">> \o IntToStr(i)

\* all(cell.strip() == "" for cell in row)
AllBlank(row) == \A k \in 1..Len(row) : Strip(row[k]) = <<>>

\* row + [""] * (n - len(row))
PadRow(row, n) == [k \in 1..Max(Len(row), n) |-> IF k <= Len(row) THEN row[k] ELSE <<>>]

RECURSIVE Flatten(_)
Flatten(chunks) == IF chunks = <<>> THEN <<>> ELSE Head(chunks) \o Flatten(Tail(chunks))

RECURSIVE MaxWidth(_)
MaxWidth(rows) == IF rows = <<>> THEN 0 ELSE Max(Len(Head(rows)), MaxWidth(Tail(rows)))

RECURSIVE SelectRows(_, _)
SelectRows(rows, keepBlank) ==
    IF rows = <<>> THEN <<>>
    ELSE IF ~keepBlank /\ AllBlank(Head(rows)) THEN SelectRows(Tail(rows), keepBlank)
    ELSE <<Head(rows)>> \o SelectRows(Tail(rows), keepBlank)

\* {name: i for i, name in enumerate(names)}: a later entry overwrites an earlier one
IndexMap(names) ==
    [n \in {names[k] : k \in 1..Len(names)} |->
        CHOOSE i \in 0..(Len(names) - 1) :
            /\ names[i + 1] = n
            /\ \A j \in 0..(Len(names) - 1) : names[j + 1] = n => j <= i]

\* ------------------------------------------------------- header processing
\* one pass of the merge loop body over a header row
MergeRow(merged, row) ==
    [j \in 1..Max(Len(merged), Len(row)) |->
        LET m == IF j <= Len(merged) THEN merged[j] ELSE <<>>
        IN  IF j > Len(row) THEN m
            ELSE IF m # <<>> THEN m \o <<"_">> \o row[j]
            ELSE row[j]]

RECURSIVE MergeHeaders(_, _)
MergeHeaders(rows, n) ==
    IF n = 0 THEN <<>> ELSE MergeRow(MergeHeaders(rows, n - 1), rows[n])

\* the name list without the replacement of empty names
NormalizeNamesKeepsEmpty(first, column_count) ==
    LET cleaned == [k \in 1..Len(first) |-> Strip(CollapseWs(first[k]))]
        filled  == IF Len(cleaned) = 0
                   THEN [k \in 1..column_count |-> ColumnName(k - 1)]
                   ELSE cleaned
    IN  [k \in 1..Max(Len(filled), column_count) |->
            IF k <= Len(filled) THEN filled[k] ELSE ColumnName(k - 1)]

\* the name list built from the (merged) header row and a column count
NormalizeNames(first, column_count) ==
    LET cleaned == [k \in 1..Len(first) |-> Strip(CollapseWs(first[k]))]
        filled  == IF Len(cleaned) = 0
                   THEN [k \in 1..column_count |-> ColumnName(k - 1)]
                   ELSE cleaned
        padded  == [k \in 1..Max(Len(filled), column_count) |->
                       IF k <= Len(filled) THEN filled[k] ELSE ColumnName(k - 1)]
    IN  [k \in 1..Len(padded) |-> IF padded[k] # <<>> THEN padded[k] ELSE ColumnName(k - 1)]

ProcessedHeaderData(hdata, hrows, mrh) ==
    IF hrows > 1 /\ mrh > 1
    THEN <<MergeHeaders(hdata, Min(mrh, Len(hdata)))>>
    ELSE hdata

\* StreamingTabularDataModel.process_headers
process_headers(hdata, hrows, mrh) ==
    LET processed == ProcessedHeaderData(hdata, hrows, mrh)
        first     == IF Len(processed) > 0 THEN processed[1] ELSE <<>>
    IN  [header_data  |-> processed,
         column_names |-> NormalizeNames(first, MaxWidth(hdata))]

\* ------------------------------------------- StreamingTabularDataModel
\* the header-collecting loop of _initialize_from_stream: header rows are taken
\* chunk by chunk; the rows left in the chunk that completes the header go to
\* the buffer as they are
RECURSIVE CollectHeaders(_, _, _)
CollectHeaders(strm, hdr, hrows) ==
    IF strm = <<>> THEN [header_data |-> hdr, buffer |-> <<>>, stream |-> <<>>]
    ELSE LET chunk == Head(strm)
             take  == Min(hrows - Len(hdr), Len(chunk))
             hdr2  == hdr \o SubSeq(chunk, 1, take)
         IN  IF Len(hdr2) >= hrows
             THEN [header_data |-> hdr2,
                   buffer      |-> SubSeq(chunk, take + 1, Len(chunk)),
                   stream      |-> Tail(strm)]
             ELSE CollectHeaders(Tail(strm), hdr2, hrows)

\* StreamingTabularDataModel._initialize_from_stream
InitializeFromStream(strm, hrows, mrh) ==
    LET c     == CollectHeaders(strm, <<>>, hrows)
        ph    == process_headers(c.header_data, hrows, mrh)
        names == IF hrows > 0 THEN ph.column_names
                 ELSE IF c.buffer # <<>>
                      THEN [k \in 1..Len(c.buffer[1]) |-> ColumnName(k - 1)]
                      ELSE <<>>
    IN  [stream           |-> c.stream,
         buffer           |-> c.buffer,
         header_data      |-> IF hrows > 0 THEN ph.header_data ELSE <<>>,
         column_names     |-> names,
         column_index_map |-> IndexMap(names)]

\* the column-growth loop: append column_<len> until the names cover n columns
\* growth that numbers the added columns from one
GrowNamesFromOne(names, n) ==
    [k \in 1..Max(Len(names), n) |-> IF k <= Len(names) THEN names[k] ELSE ColumnName(k)]

GrowNames(names, n) ==
    [k \in 1..Max(Len(names), n) |-> IF k <= Len(names) THEN names[k] ELSE ColumnName(k - 1)]

\* ... and self._column_index_map[new_col_name] = len(self._column_names) - 1
GrowMap(map, names, n) ==
    LET added == {ColumnName(k) : k \in Len(names)..(n - 1)}
    IN  [x \in (DOMAIN map) \cup added |->
            IF x \in added
            THEN CHOOSE k \in Len(names)..(n - 1) : ColumnName(k) = x
            ELSE map[x]]

\* the "Normalize row length" branch shared by __iter__ and _fill_buffer
NormalizedRow(row, names) == IF Len(row) < Len(names) THEN PadRow(row, Len(names)) ELSE row

\* the stream loop of __iter__, run up to its next yield
RECURSIVE NextFromStream(_, _, _)
NextFromStream(chunk, strm, skip) ==
    IF chunk = <<>>
    THEN IF strm = <<>>
         THEN [found |-> FALSE, row |-> <<>>, chunk |-> <<>>, stream |-> <<>>]
         ELSE NextFromStream(Head(strm), Tail(strm), skip)
    ELSE IF skip /\ AllBlank(Head(chunk))
         THEN NextFromStream(Tail(chunk), strm, skip)
         ELSE [found |-> TRUE, row |-> Head(chunk), chunk |-> Tail(chunk), stream |-> strm]

\* one pass of the body of `for row in chunk` in _fill_buffer, on the loop state
\* st; after the break (full) the rest of the chunk is not visited
FillRow(st, row, skip, csize) ==
    IF st.full \/ (skip /\ AllBlank(row)) THEN st
    ELSE [buffer |-> Append(st.buffer, NormalizedRow(row, st.names)),
          names  |-> GrowNames(st.names, Len(row)),
          map    |-> GrowMap(st.map, st.names, Len(row)),
          full   |-> Len(st.buffer) + 1 >= csize]

\* the passes over the rows lo..hi of the chunk, composed
RECURSIVE FillRows(_, _, _, _, _, _)
FillRows(st, chunk, lo, hi, skip, csize) ==
    IF lo > hi THEN st
    ELSE IF lo = hi THEN FillRow(st, chunk[lo], skip, csize)
    ELSE LET mid  == (lo + hi) \div 2
             left == FillRows(st, chunk, lo, mid, skip, csize)
         IN  IF left.full THEN left ELSE FillRows(left, chunk, mid + 1, hi, skip, csize)

\* the for-loop of _fill_buffer over one chunk; it breaks, dropping the rest of
\* the chunk, once the buffer holds chunk_size rows
FillChunk(buf, chunk, names, map, skip, csize) ==
    LET st == FillRows([buffer |-> buf, names |-> names, map |-> map, full |-> FALSE],
                       chunk, 1, Len(chunk), skip, csize)
    IN  [buffer |-> st.buffer, names |-> st.names, map |-> st.map]

\* StreamingTabularDataModel._fill_buffer
RECURSIVE FillLoop(_, _, _, _, _, _)
FillLoop(buf, strm, names, map, skip, csize) ==
    IF Len(buf) >= csize \/ strm = <<>>
    THEN [buffer |-> buf, stream |-> strm, names |-> names, map |-> map]
    ELSE LET r == FillChunk(buf, Head(strm), names, map, skip, csize)
         IN  FillLoop(r.buffer, Tail(strm), r.names, r.map, skip, csize)

\* ------------------------------------------------------ TabularDataModel
\* the empty-row filter alone, on rows left at their own widths
NormalizeWithoutPadding(rows, skip) == SelectRows(rows, ~skip)

\* TabularDataModel._normalize_data_model
normalize_data_model(rows, skip) ==
    LET w      == MaxWidth(rows)
        padded == [k \in 1..Len(rows) |-> PadRow(rows[k], w)]
    IN  SelectRows(padded, ~skip)

\* TabularDataModel.__init__ (jpy_tools): the fields of the constructed object,
\* or status "error" for the ValueError on empty data
TabularDataModel(data, hrows, mrh, skip) ==
    IF Len(data) = 0
    THEN [status |-> "error", header_data |-> <<>>, data |-> <<>>, columns |-> 0,
          rows |-> 0, column_names |-> <<>>, column_index_map |-> IndexMap(<<>>)]
    ELSE LET hdata   == SubSeq(data, 1, Min(hrows, Len(data)))
             body    == normalize_data_model(SubSeq(data, Min(hrows, Len(data)) + 1, Len(data)), skip)
             columns == IF Len(body) > 0 THEN Len(body[1]) ELSE 0
             hd      == ProcessedHeaderData(hdata, hrows, mrh)
             first   == IF Len(hd) > 0 THEN hd[1] ELSE <<>>
             names   == NormalizeNames(first, columns)
         IN  [status |-> "ok", header_data |-> hd, data |-> body, columns |-> columns,
              rows |-> Len(body), column_names |-> names,
              column_index_map |-> IndexMap(names)]

\* what a call returned (kind names the Python type of val) or raised
Returned(kind, val) == [kind |-> kind, val |-> val]
Raised(kind) == [kind |-> kind, val |-> <<>>]

\* list[index] of Python: a negative index counts from the end of the list
GetItem(list, index) ==
    IF 0 <= index /\ index < Len(list) THEN Returned("item", list[index + 1])
    ELSE IF -Len(list) <= index /\ index < 0 THEN Returned("item", list[Len(list) + index + 1])
    ELSE Raised("IndexError")

\* TabularDataModel.row_as_list(index)
row_as_list(t, index) ==
    LET r == GetItem(t.data, index)
    IN  IF r.kind = "item" THEN Returned("list", r.val) ELSE r

\* TabularDataModel.row_as_tuple(index)
row_as_tuple(t, index) ==
    LET r == GetItem(t.data, index)
    IN  IF r.kind = "item" THEN Returned("tuple", r.val) ELSE r

\* TabularDataModel.row(index): the comprehension evaluates self._data[index]
\* once per column, so with no column it evaluates nothing; a name that occurs
\* twice keeps the cell of its last column
table_row(t, index) ==
    LET r == GetItem(t.data, index)
    IN  IF t.columns = 0 THEN Returned("dict", <<>>)
        ELSE IF r.kind # "item" THEN r
        ELSE Returned("dict",
                 [n \in {t.column_names[k] : k \in 1..t.columns} |->
                     r.val[CHOOSE k \in 1..t.columns :
                               /\ t.column_names[k] = n
                               /\ \A j \in 1..t.columns : t.column_names[j] = n => j <= k]])

\* TabularDataModel.column_index(name)
column_index(t, name) ==
    IF name \notin DOMAIN t.column_index_map THEN Raised("ValueError")
    ELSE Returned("int", t.column_index_map[name])

\* ------------------------------------------------------------- the inputs
EmptyCell == <<>>
BlankCell == <<" ">>
WordCell  == <<"a", " ", " ", "b">>

RowH == <<ColumnName(2), EmptyCell>>
RowB == <<EmptyCell, BlankCell>>
RowW == <<WordCell, EmptyCell, WordCell>>

SampleRows == {RowH, RowB, RowW}

Chunks(n) == UNION {[1..k -> SampleRows] : k \in 1..n}

\* every upstream iterator of non-empty chunks holding at most n rows in all
RECURSIVE Streams(_)
Streams(n) ==
    {<<>>} \cup UNION {{<<c>> \o s : s \in Streams(n - Len(c))} : c \in Chunks(n)}

\* ------------------------------------------------------------ type_helper
\* A Python value: t is its type; s holds the characters of a str; n holds the
\* number of a bool (0 or 1) or an int, or the digits of a float that has e
\* decimal places (the float n / 10^e).
Value(t, s, n, e) == [t |-> t, s |-> s, n |-> n, e |-> e]
StrValue(s) == Value("str", s, 0, 0)
NoneValue == Value("NoneType", <<>>, 0, 0)
BoolValue(b) == Value("bool", <<>>, IF b THEN 1 ELSE 0, 0)
IntValue(n) == Value("int", <<>>, n, 0)
RECURSIVE FloatValue(_, _)
FloatValue(n, e) ==
    IF e > 0 /\ n % Len(DigitChars) = 0 THEN FloatValue(n \div Len(DigitChars), e - 1)
    ELSE Value("float", <<>>, n, e)
\* the exceptions a conversion can raise
ValueError == Value("ValueError", <<>>, 0, 0)
TypeError == Value("TypeError", <<>>, 0, 0)

\* isinstance(value, cls): bool is a subclass of int
IsInstance(v, cls) == v.t = cls \/ (cls = "int" /\ v.t = "bool")

UpperChars == <<"A", "B", "C", "D", "E", "F", "G", "H", "I", "J", "K", "L", "M",
                "N", "O", "P", "Q", "R", "S", "T", "U", "V", "W", "X", "Y", "Z">>
LowerChars == <<"a", "b", "c", "d", "e", "f", "g", "h", "i", "j", "k", "l", "m",
                "n", "o", "p", "q", "r", "s", "t", "u", "v", "w", "x", "y", "z">>

\* str.lower()
Lower(s) ==
    [k \in 1..Len(s) |->
        IF \E u \in 1..Len(UpperChars) : UpperChars[u] = s[k]
        THEN LowerChars[CHOOSE u \in 1..Len(UpperChars) : UpperChars[u] = s[k]]
        ELSE s[k]]

Digits == {DigitChars[k] : k \in 1..Len(DigitChars)}
SignChars == {"-", "+"}
DateSepChars == {"-", "/", "."}

AllDigits(s) == \A k \in 1..Len(s) : s[k] \in Digits

\* the number written by a text of decimal digits
RECURSIVE Number(_)
Number(s) ==
    IF s = <<>> THEN 0
    ELSE Len(DigitChars) * Number(SubSeq(s, 1, Len(s) - 1))
         + (CHOOSE d \in 0..(Len(DigitChars) - 1) : DigitChars[d + 1] = s[Len(s)])

\* ---- regular expressions: a pattern is a set of alternatives, an alternative
\* a sequence of items, an item min..max characters of a set (max < 0: no limit)
Rep(set, min, max) == [set |-> set, min |-> min, max |-> max]
One(c) == Rep({c}, 1, 1)
Opt(set) == Rep(set, 0, 1)
D(n) == Rep(Digits, n, n)

RECURSIVE Matches(_, _)
Matches(text, items) ==
    IF items = <<>> THEN text = <<>>
    ELSE LET it == Head(items)
             top == IF it.max < 0 THEN Len(text) ELSE Min(it.max, Len(text))
         IN  \E w \in it.min..top :
                /\ \A k \in 1..w : text[k] \in it.set
                /\ Matches(SubSeq(text, w + 1, Len(text)), Tail(items))

\* regex.match(text) is not None, for a pattern anchored by ^ and $ ($ also
\* matches before a final newline)
RegexMatch(regex, text) ==
    \E alt \in regex :
        \/ Matches(text, alt)
        \/ text # <<>> /\ text[Len(text)] = "\n" /\ Matches(SubSeq(text, 1, Len(text) - 1), alt)

_FLOAT_REGEX == {<<Opt(SignChars), Rep(Digits, 0, -1), One("."), Rep(Digits, 0, -1)>>}
_INTEGER_REGEX == {<<Opt(SignChars), Rep(Digits, 1, -1)>>}
_DATE_YYYY_MM_DD_REGEX == {<<D(4), Opt(DateSepChars), D(2), Opt(DateSepChars), D(2)>>}
_DATE_MM_DD_YYYY_REGEX == {<<D(2), Opt(DateSepChars), D(2), Opt(DateSepChars), D(4)>>}

\* [T]?\d{2}[:]?\d{2}([:]?\d{2}([.]?\d{5})?)?
TimeOfDayTails ==
    LET hm == <<Opt({"T"}), D(2), Opt({":"}), D(2)>>
    IN  {hm, hm \o <<Opt({":"}), D(2)>>, hm \o <<Opt({":"}), D(2), Opt({"."}), D(5)>>}

_DATETIME_YYYY_MM_DD_REGEX == {d \o t : d \in _DATE_YYYY_MM_DD_REGEX, t \in TimeOfDayTails}
_DATETIME_MM_DD_YYYY_REGEX == {d \o t : d \in _DATE_MM_DD_YYYY_REGEX, t \in TimeOfDayTails}

_TIME_24HOUR_REGEX ==
    LET hm == <<Rep(Digits, 1, 2), One(":"), D(2)>>
    IN  {hm, hm \o <<One(":"), D(2)>>, hm \o <<One(":"), D(2), One("."), Rep(Digits, 1, -1)>>}

_TIME_12HOUR_REGEX ==
    {t \o <<Rep(SpaceChars, 0, -1)>> \o p :
        t \in _TIME_24HOUR_REGEX,
        p \in {<<Rep({"A", "P"}, 1, 1), One("M")>>, <<Rep({"a", "p"}, 1, 1), One("m")>>}}

_TIME_COMPACT_REGEX == {<<D(2), D(2)>>, <<D(2), D(2), D(2)>>}

\* ---- datetime.strptime: a format is a sequence of directives and literals
Directives == {"%Y", "%m", "%d", "%H", "%M", "%S", "%f", "%I", "%p"}

LeadingSpaces(text) == Len(text) - Len(LStrip(text))

\* the widths a format item tries at the head of text, in the order in which
\* the regular expression that strptime builds tries them
Alternatives(d, text) ==
    CASE d = "%Y" -> <<4>>
      [] d = "%f" -> <<6, 5, 4, 3, 2, 1>>
      [] d = "%p" -> <<2>>
      [] d \in Directives -> <<2, 1>>
      [] d = " "  -> [k \in 1..LeadingSpaces(text) |-> LeadingSpaces(text) + 1 - k]
      [] OTHER    -> <<1>>

\* whether the characters c can stand for the format item d
Accepts(d, c) ==
    CASE d = "%p" -> Lower(c) \in {<<"a", "m">>, <<"p", "m">>}
      [] d \in {"%m", "%I"} -> AllDigits(c) /\ Number(c) \in 1..12
      [] d = "%d" -> AllDigits(c) /\ Number(c) \in 1..31
      [] d = "%H" -> AllDigits(c) /\ (Len(c) = 1 \/ Number(c) <= 23)
      [] d = "%M" -> AllDigits(c) /\ (Len(c) = 1 \/ Number(c) <= 59)
      [] d = "%S" -> AllDigits(c) /\ (Len(c) = 1 \/ Number(c) <= 61)
      [] d \in {"%Y", "%f"} -> AllDigits(c)
      [] d = " "  -> \A k \in 1..Len(c) : IsSpace(c[k])
      [] OTHER    -> Lower(c) = Lower(<<d>>)

NoMatch == [ok |-> FALSE, fields |-> <<>>, rest |-> <<>>]

\* format_regex.match(text): the first match of a prefix of text, found by
\* backtracking over the alternatives of each item
RECURSIVE FormatMatch(_, _), TryAlternatives(_, _, _)
FormatMatch(text, format) ==
    IF format = <<>> THEN [ok |-> TRUE, fields |-> <<>>, rest |-> text]
    ELSE TryAlternatives(text, format, Alternatives(Head(format), text))

TryAlternatives(text, format, alts) ==
    IF alts = <<>> THEN NoMatch
    ELSE LET w == Head(alts)
             c == SubSeq(text, 1, w)
         IN  CHOOSE r \in
                 {IF sub.ok
                  THEN [ok     |-> TRUE,
                        fields |-> <<[d |-> Head(format),
                                      n |-> IF AllDigits(c) THEN Number(c) ELSE 0]>> \o sub.fields,
                        rest   |-> sub.rest]
                  ELSE TryAlternatives(text, format, Tail(alts)) :
                      sub \in {IF w <= Len(text) /\ Accepts(Head(format), c)
                               THEN FormatMatch(SubSeq(text, w + 1, Len(text)), Tail(format))
                               ELSE NoMatch}} : TRUE

\* the number parsed for directive d, or dflt when the format has no d
Field(fields, d, dflt) ==
    IF \E k \in 1..Len(fields) : fields[k].d = d
    THEN fields[CHOOSE k \in 1..Len(fields) : fields[k].d = d].n
    ELSE dflt

IsLeapYear(y) == y % 4 = 0 /\ (y % 100 # 0 \/ y % 400 = 0)

DaysInMonth(y, m) ==
    IF m = 2 THEN (IF IsLeapYear(y) THEN 29 ELSE 28)
    ELSE IF m \in {4, 6, 9, 11} THEN 30
    ELSE 31

\* datetime.strptime(text, format) returns a value (does not raise ValueError)
Strptime(text, format) ==
    \E m \in {FormatMatch(text, format)} :
        /\ m.ok
        /\ m.rest = <<>>
        /\ Field(m.fields, "%Y", 1900) >= 1
        /\ Field(m.fields, "%d", 1)
              <= DaysInMonth(Field(m.fields, "%Y", 1900), Field(m.fields, "%m", 1))
        /\ Field(m.fields, "%S", 0) <= 59

DateOrders == {<<"%Y", "%m", "%d">>, <<"%Y", "%d", "%m">>, <<"%m", "%d", "%Y">>}

\* the three date directives o joined by sep, or run together when sep is ""
DateFormat(o, sep) == IF sep = "" THEN o ELSE <<o[1], sep, o[2], sep, o[3]>>

_DATE_PATTERNS == {DateFormat(o, sep) : o \in DateOrders, sep \in DateSepChars \cup {""}}

_TIME_PATTERNS ==
    {<<"%H", ":", "%M", ":", "%S">>,
     <<"%H", ":", "%M", ":", "%S", ".", "%f">>,
     <<"%H", ":", "%M">>,
     <<"%H", "%M">>,
     <<"%H", "%M", "%S">>,
     <<"%I", ":", "%M", ":", "%S", ".", "%f", " ", "%p">>,
     <<"%I", ":", "%M", ":", "%S", " ", "%p">>,
     <<"%I", ":", "%M", " ", "%p">>,
     <<"%I", ":", "%M", ":", "%S", "%p">>,
     <<"%I", ":", "%M", "%p">>}

_DATETIME_PATTERNS ==
    {DateFormat(o, sep) \o (IF sep = "" THEN <<"%H", "%M", "%S">> \o frac
                            ELSE <<"T", "%H", ":", "%M", ":", "%S">>
                                 \o (IF frac = <<>> THEN <<>> ELSE <<".">> \o frac)) :
        o \in DateOrders, sep \in DateSepChars \cup {""}, frac \in {<<>>, <<"%f">>}}

_is_date_like(text) == \E p \in _DATE_PATTERNS : Strptime(text, p)
_is_time_like(text) == \E p \in _TIME_PATTERNS : Strptime(text, p)
_is_datetime_like(text) == \E p \in _DATETIME_PATTERNS : Strptime(text, p)

\* ---- String.is_*_like(value, trim=trim)
Trimmed(s, trim) == IF trim THEN Strip(s) ELSE s

is_bool_like(v, trim) ==
    IF IsInstance(v, "bool") THEN TRUE
    ELSE IF IsInstance(v, "str")
    THEN Trimmed(Lower(v.s), trim) \in {<<"t", "r", "u", "e">>, <<"f", "a", "l", "s", "e">>}
    ELSE FALSE

is_none_like(v, trim) ==
    IF v = NoneValue THEN TRUE
    ELSE IF IsInstance(v, "str")
    THEN Lower(Trimmed(v.s, trim)) \in {<<"n", "o", "n", "e">>, <<"n", "u", "l", "l">>}
    ELSE FALSE

is_empty_like(v, trim) ==
    IF ~IsInstance(v, "str") THEN FALSE
    ELSE Trimmed(v.s, trim) = <<>>

is_float_like(v, trim) ==
    IF v = NoneValue THEN FALSE
    ELSE IF IsInstance(v, "float") THEN TRUE
    ELSE IF ~IsInstance(v, "str") THEN FALSE
    ELSE RegexMatch(_FLOAT_REGEX, Trimmed(v.s, trim))

is_int_like(v, trim) ==
    IF v = NoneValue THEN FALSE
    ELSE IF IsInstance(v, "int") THEN TRUE
    ELSE IF ~IsInstance(v, "str") THEN FALSE
    ELSE RegexMatch(_INTEGER_REGEX, Trimmed(v.s, trim))

\* bool(value) is False: None, False, 0, 0.0 and ""
Falsy(v) == v.t = "NoneType" \/ (v.t \in {"bool", "int", "float"} /\ v.n = 0) \/ (v.t = "str" /\ v.s = <<>>)

is_date_like(v, trim) ==
    IF Falsy(v) THEN FALSE
    ELSE IF IsInstance(v, "date") THEN TRUE
    ELSE IF ~IsInstance(v, "str") THEN FALSE
    ELSE LET tmp_value == Trimmed(v.s, trim)
         IN  \/ RegexMatch(_DATE_YYYY_MM_DD_REGEX, tmp_value) /\ _is_date_like(tmp_value)
             \/ RegexMatch(_DATE_MM_DD_YYYY_REGEX, tmp_value) /\ _is_date_like(tmp_value)

is_datetime_like(v, trim) ==
    IF Falsy(v) THEN FALSE
    ELSE IF IsInstance(v, "datetime") THEN TRUE
    ELSE IF ~IsInstance(v, "str") THEN FALSE
    ELSE LET tmp_value == Trimmed(v.s, trim)
         IN  \/ RegexMatch(_DATETIME_YYYY_MM_DD_REGEX, tmp_value) /\ _is_datetime_like(tmp_value)
             \/ RegexMatch(_DATETIME_MM_DD_YYYY_REGEX, tmp_value) /\ _is_datetime_like(tmp_value)

is_time_like(v, trim) ==
    IF Falsy(v) THEN FALSE
    ELSE IF IsInstance(v, "time") THEN TRUE
    ELSE IF ~IsInstance(v, "str") THEN FALSE
    ELSE LET tmp_value == Trimmed(v.s, trim)
         IN  \/ RegexMatch(_TIME_24HOUR_REGEX, tmp_value) /\ _is_time_like(tmp_value)
             \/ RegexMatch(_TIME_12HOUR_REGEX, tmp_value) /\ _is_time_like(tmp_value)
             \/ RegexMatch(_TIME_COMPACT_REGEX, tmp_value) /\ _is_time_like(tmp_value)

\* String.infer_type(value, trim=trim)
\* the chain of tests with the integer test ahead of the temporal ones
InferTypeIntegerFirst(v, trim) ==
    IF is_none_like(v, trim) THEN "NONE"
    ELSE IF is_bool_like(v, trim) THEN "BOOLEAN"
    ELSE IF is_int_like(v, trim) THEN "INTEGER"
    ELSE IF is_datetime_like(v, trim) THEN "DATETIME"
    ELSE IF is_time_like(v, trim) THEN "TIME"
    ELSE IF is_date_like(v, trim) THEN "DATE"
    ELSE IF is_float_like(v, trim) THEN "FLOAT"
    ELSE IF is_empty_like(v, trim) THEN "EMPTY"
    ELSE "STRING"

infer_type(v, trim) ==
    IF is_none_like(v, trim) THEN "NONE"
    ELSE IF is_bool_like(v, trim) THEN "BOOLEAN"
    ELSE IF is_datetime_like(v, trim) THEN "DATETIME"
    ELSE IF is_time_like(v, trim) THEN "TIME"
    ELSE IF is_date_like(v, trim) THEN "DATE"
    ELSE IF is_int_like(v, trim) THEN "INTEGER"
    ELSE IF is_float_like(v, trim) THEN "FLOAT"
    ELSE IF is_empty_like(v, trim) THEN "EMPTY"
    ELSE "STRING"

\* ---- int(value) and float(value), on a bool, an int, a float, or a str made
\* of digits, signs, dots and whitespace
PyInt(v) ==
    IF IsInstance(v, "int") THEN IntValue(v.n)
    ELSE IF IsInstance(v, "str")
    THEN LET s == Strip(v.s)
             body == IF s # <<>> /\ Head(s) \in SignChars THEN Tail(s) ELSE s
         IN  IF body # <<>> /\ AllDigits(body)
             THEN IntValue(IF Head(s) = "-" THEN 0 - Number(body) ELSE Number(body))
             ELSE ValueError
    ELSE TypeError

PyFloat(v) ==
    IF IsInstance(v, "float") THEN v
    ELSE IF IsInstance(v, "int") THEN FloatValue(v.n, 0)
    ELSE IF IsInstance(v, "str")
    THEN LET s == Strip(v.s)
             body == IF s # <<>> /\ Head(s) \in SignChars THEN Tail(s) ELSE s
             dots == {k \in 1..Len(body) : body[k] = "."}
             digits == SelectSeq(body, LAMBDA c : c # ".")
             places == IF dots = {} THEN 0 ELSE Len(body) - (CHOOSE k \in dots : TRUE)
         IN  IF Cardinality(dots) <= 1 /\ digits # <<>> /\ AllDigits(digits)
             THEN FloatValue(IF Head(s) = "-" THEN 0 - Number(digits) ELSE Number(digits), places)
             ELSE ValueError
    ELSE TypeError

\* ---- String.to_*(value, default=default, trim=trim)
to_bool(v, default, trim) ==
    IF IsInstance(v, "bool") THEN v
    ELSE IF is_bool_like(v, trim)
    THEN BoolValue(Trimmed(Lower(v.s), trim) = <<"t", "r", "u", "e">>)
    ELSE default

to_float(v, default, trim) == IF is_float_like(v, trim) THEN PyFloat(v) ELSE default

to_int(v, default, trim) == IF is_int_like(v, trim) THEN PyInt(v) ELSE default

\* ---- profile_values
DataTypes == {"BOOLEAN", "DATE", "TIME", "DATETIME", "INTEGER", "FLOAT", "STRING", "EMPTY", "NONE"}

\* the value None returned by _determine_type_from_counts
NoType == "None"

_determine_type_from_counts(types, count, allow_special_cases) ==
    IF types["EMPTY"] = count THEN "EMPTY"
    ELSE IF types["NONE"] = count THEN "NONE"
    ELSE IF types["NONE"] + types["EMPTY"] = count THEN "NONE"
    ELSE IF types["BOOLEAN"] + types["EMPTY"] = count THEN "BOOLEAN"
    ELSE IF types["STRING"] + types["EMPTY"] = count THEN "STRING"
    ELSE IF ~allow_special_cases THEN NoType
    ELSE IF types["DATE"] + types["EMPTY"] = count THEN "DATE"
    ELSE IF types["DATETIME"] + types["EMPTY"] = count THEN "DATETIME"
    ELSE IF types["TIME"] + types["EMPTY"] = count THEN "TIME"
    ELSE IF types["INTEGER"] + types["EMPTY"] = count THEN "INTEGER"
    ELSE IF types["FLOAT"] + types["INTEGER"] + types["EMPTY"] = count THEN "FLOAT"
    ELSE NoType

_INCREMENTAL_TYPECHECK_THRESHOLD == 10000

\* values_list is held as a sequence of runs: run r stands for r.n consecutive
\* elements equal to r.v
RECURSIVE TotalCount(_)
TotalCount(runs) == IF runs = <<>> THEN 0 ELSE Head(runs).n + TotalCount(Tail(runs))

\* the body of `if use_incremental_typecheck and count in check_points`
CheckPoint(types, count) ==
    LET numeric_temporal_count == types["INTEGER"] + types["FLOAT"] + types["DATE"]
                                  + types["DATETIME"] + types["TIME"]
        string_count == types["STRING"]
    IN  IF numeric_temporal_count > 0 /\ string_count > 0 THEN "MIXED"
        ELSE _determine_type_from_counts(types, count, FALSE)

\* the first pass over values_list: the iterations between two check points
\* add the same type and are taken in one step
RECURSIVE FirstPass(_, _, _, _, _)
FirstPass(runs, types, count, check_points, trim) ==
    IF runs = <<>> THEN [returned |-> FALSE, result |-> NoType, types |-> types, count |-> count]
    ELSE LET r == Head(runs)
             inferred_type == infer_type(r.v, trim)
             ahead == {c \in check_points : count < c /\ c <= count + r.n}
         IN  IF ahead = {}
             THEN FirstPass(Tail(runs), [types EXCEPT ![inferred_type] = @ + r.n],
                            count + r.n, check_points, trim)
             ELSE LET c == CHOOSE x \in ahead : \A y \in ahead : x <= y
                      types2 == [types EXCEPT ![inferred_type] = @ + (c - count)]
                      early_result == CheckPoint(types2, c)
                      left == r.n - (c - count)
                  IN  IF early_result # NoType
                      THEN [returned |-> TRUE, result |-> early_result,
                            types |-> types2, count |-> c]
                      ELSE FirstPass(IF left = 0 THEN Tail(runs)
                                     ELSE <<[v |-> r.v, n |-> left]>> \o Tail(runs),
                                     types2, c, check_points, trim)

\* what profile_values returns once the first pass has ended as pass
AfterFirstPass(pass, runs, trim) ==
    LET types == pass.types
        count == pass.count
        final_result == _determine_type_from_counts(types, count, TRUE)
        all_digit_values ==
            \A k \in 1..Len(runs) :
                is_empty_like(runs[k].v, trim) \/ is_int_like(runs[k].v, trim)
    IN  IF pass.returned THEN pass.result
        ELSE IF final_result # NoType THEN final_result
        ELSE IF /\ types["DATE"] + types["TIME"] + types["DATETIME"] + types["INTEGER"]
                   + types["EMPTY"] = count
                /\ (types["DATE"] > 0 \/ types["TIME"] > 0 \/ types["DATETIME"] > 0
                    \/ types["EMPTY"] > 0)
                /\ all_digit_values
        THEN "INTEGER"
        ELSE "MIXED"

profile_values(runs, trim, use_incremental_typecheck) ==
    LET total_count == TotalCount(runs)
        incremental == IF total_count <= _INCREMENTAL_TYPECHECK_THRESHOLD THEN FALSE
                       ELSE use_incremental_typecheck
        check_points == IF incremental
                        THEN {total_count \div 4, total_count \div 2, (3 * total_count) \div 4}
                        ELSE {}
    IN  IF total_count = 0 THEN "EMPTY"
        ELSE CHOOSE result \in
                 {AfterFirstPass(pass, runs, trim) :
                     pass \in {FirstPass(runs, [t \in DataTypes |-> 0], 0, check_points, trim)}} :
                 TRUE

\* ---- the values the type helpers are applied to
TextTrue == <<"t", "r", "u", "e">>
TextNull == <<"n", "u", "l", "l">>
TextWord == <<"a", "b">>
TextFloat == <<"1", ".", "5">>

\* the texts 12, 1430 (a time and an integer) and 20240229 (a date and an integer)
TextInteger == IntToStr(12)
TextTime == IntToStr(1430)
TextDate == IntToStr(20240229)
TextIsoDate == IntToStr(2024) \o <<"-", "0", "2", "-">> \o IntToStr(29)
TextDateTime == TextIsoDate \o <<"T">> \o IntToStr(14) \o <<":">> \o IntToStr(30) \o <<":", "0", "0">>

ProfiledValues ==
    {StrValue(s) : s \in {TextTrue, TextNull, <<>>, <<" ">>, TextWord, TextFloat,
                          TextInteger, TextTime, TextDate}}

\* run lengths: a single element, a quarter of the threshold, and what a
\* quarter leaves of the smallest list longer than the threshold
RunLengths ==
    {1, _INCREMENTAL_TYPECHECK_THRESHOLD \div 4,
     _INCREMENTAL_TYPECHECK_THRESHOLD + 1 - (_INCREMENTAL_TYPECHECK_THRESHOLD \div 4)}

Runs == [v : ProfiledValues, n : RunLengths]

RunLists == UNION {[1..k -> Runs] : k \in 0..MaxRuns}

ConvChars == {"1", ".", "-", " "}

Texts(n) == UNION {[1..k -> ConvChars] : k \in 0..n}

ConvertedValues ==
    {StrValue(s) : s \in Texts(MaxTextLen) \cup {TextTrue, TextNull, TextWord, TextInteger,
                                                 TextTime, TextDate, TextDateTime, TextIsoDate}}
    \cup {NoneValue, BoolValue(TRUE), BoolValue(FALSE), IntValue(12), FloatValue(15, 1)}

\* a default that is none of the converters' result types, and None
DefaultValues == {NoneValue, StrValue(<<"d">>)}

\* a result that has not been computed
Unset == Value("unset", <<>>, 0, 0)

\* a profile that has not been computed
NotProfiled == "unset"

\* ------------------------------------------------------------ the machine
\* no accessor of the table has been called yet
NoCall == [op |-> "none", index |-> 0, name |-> <<>>, ret |-> Raised("none")]

\* the consumer holds a row object: idx is its 1-based place in self._buffer, 0
\* when the object is not (or no longer) an element of the buffer; mutated
\* tells that the consumer has written into a row it held (one write per
\* behaviour shows all)
Handed(idx) == [held |-> TRUE, idx |-> idx, mutated |-> handed.mutated]
NothingHanded == [held |-> FALSE, idx |-> 0, mutated |-> FALSE]

\* the state after StreamingTabularDataModel(iter(strm), header_rows=h,
\* multi_row_headers=m, skip_empty_rows=sk) was constructed
StreamingConstructed(strm, h, m, sk) ==
    LET s0 == InitializeFromStream(strm, h, m)
    IN  /\ stream = s0.stream
        /\ header_rows = h
        /\ multi_row_headers = m
        /\ skip_empty_rows = sk
        /\ chunk_size = MinChunkSize
        /\ header_data = s0.header_data
        /\ column_names = s0.column_names
        /\ column_index_map = s0.column_index_map
        /\ buffer = s0.buffer
        /\ row_count = 0
        /\ it_pc = "idle"
        /\ it_i = 0
        /\ it_chunk = <<>>
        /\ source = Flatten(strm)
        /\ yielded = <<>>
        /\ fills = 0
        /\ column_types = <<>>
        /\ type_calls = <<>>
        /\ handed = NothingHanded
        /\ iterations = <<>>

\* ... and TabularDataModel(rows, header_rows=h, multi_row_headers=m,
\* skip_empty_rows=sk) over the same rows
ModelsConstructed(strm, h, m, sk) ==
    /\ StreamingConstructed(strm, h, m, sk)
    /\ table = TabularDataModel(Flatten(strm), h, m, sk)
    /\ tb_call = NoCall

\* a delimiter
Comma == <<",">>

\* the state after parse_stream(file of n lines, skip_header_rows=h,
\* skip_footer_rows=f, chunk_size=cs) returned its generator
StreamOpened(n, h, f, cs, delimiter) ==
    /\ ps_delimiter = delimiter
    /\ ps_file = "unopened"
    /\ ps_abandoned = FALSE
    /\ ps_held = TRUE
    /\ ps_lines = n
    /\ ps_skip_header_rows = h
    /\ ps_skip_footer_rows = f
    /\ ps_chunk_size = cs
    /\ ps_pos = 0
    /\ ps_buffer = <<>>
    /\ ps_pc = "start"
    /\ ps_out = <<>>

\* the state before profile_values(values, trim=trim) is called on the list runs
Profiling(runs, trim) ==
    /\ pv_values = runs
    /\ pv_trim = trim
    /\ pv_incremental = NotProfiled
    /\ pv_full = NotProfiled

\* the state before a converter is called on v with default d
Converting(v, d, trim) ==
    /\ cv_value = v
    /\ cv_default = d
    /\ cv_trim = trim
    /\ cv_bool = Unset
    /\ cv_int = Unset
    /\ cv_float = Unset
    /\ cv_type = NotProfiled

NoProfile == Profiling(<<>>, TRUE)
NoConversion == Converting(NoneValue, NoneValue, TRUE)

NoModels == ModelsConstructed(<<>>, 0, 1, TRUE)
NoStream == StreamOpened(0, 0, 0, MinChunkSize, Comma)

Init ==
    /\ \E strm \in Streams(MaxRows), h \in 0..MaxHeaderRows, sk \in BOOLEAN :
         \E m \in 1..Max(h, 1) : ModelsConstructed(strm, h, m, sk)
    /\ NoStream
    /\ NoProfile
    /\ NoConversion

\* an iteration starts when `yielded` has the length it has now; after_complete
\* tells that an iteration before it ran to the end of the upstream iterator
Started(after_complete) == [start |-> Len(yielded), after_complete |-> after_complete]

\* iter(model): the generator object is created; its body has not run
Iter ==
    /\ it_pc = "idle"
    /\ it_pc' = "buf"
    /\ it_i' = 0
    /\ iterations' = Append(iterations, Started(FALSE))
    /\ UNCHANGED <<stream, header_rows, multi_row_headers, skip_empty_rows, chunk_size,
                   header_data, column_names, column_index_map, buffer, row_count,
                   it_chunk, source, yielded, fills, table, tb_call,
                   column_types, type_calls, handed, psvars, pvvars, cvvars>>

\* iter(model) once more: the generator of the iteration before, run to its end
\* or left suspended, is not resumed again; the rows of its current chunk that
\* it had not yet visited go with it
IterAgain ==
    /\ it_pc \in {"buf", "stream", "done"}
    /\ Len(iterations) < MaxIterations
    /\ it_pc' = "buf"
    /\ it_i' = 0
    /\ it_chunk' = <<>>
    /\ iterations' = Append(iterations,
                            Started(it_pc = "done" \/ iterations[Len(iterations)].after_complete))
    /\ UNCHANGED <<stream, header_rows, multi_row_headers, skip_empty_rows, chunk_size,
                   header_data, column_names, column_index_map, buffer, row_count,
                   source, yielded, fills, table, tb_call,
                   column_types, type_calls, handed, psvars, pvvars, cvvars>>

\* next(generator) while the list iterator over self._buffer has a row left
NextBuffered ==
    /\ it_pc = "buf"
    /\ it_i < Len(buffer)
    /\ row_count' = row_count + 1
    /\ yielded' = Append(yielded, [row |-> buffer[it_i + 1], cols |-> Len(column_names)])
    /\ it_i' = it_i + 1
    /\ handed' = Handed(it_i + 1)
    /\ UNCHANGED <<stream, header_rows, multi_row_headers, skip_empty_rows, chunk_size,
                   header_data, column_names, column_index_map, buffer, it_pc,
                   it_chunk, source, fills, table, tb_call,
                   column_types, type_calls, iterations, psvars, pvvars, cvvars>>

\* the generator has left (or now leaves) the buffer loop
InStreamLoop == it_pc = "stream" \/ (it_pc = "buf" /\ it_i >= Len(buffer))

\* next(generator) in the stream loop, a row is found: normalize and yield it
NextStreamed ==
    LET r == NextFromStream(it_chunk, stream, skip_empty_rows)
    IN  /\ InStreamLoop
        /\ r.found
        /\ buffer' = IF it_pc = "buf" THEN <<>> ELSE buffer
        /\ it_pc' = "stream"
        /\ it_chunk' = r.chunk
        /\ stream' = r.stream
        /\ column_names' = GrowNames(column_names, Len(r.row))
        /\ column_index_map' = GrowMap(column_index_map, column_names, Len(r.row))
        /\ row_count' = row_count + 1
        /\ yielded' = Append(yielded, [row  |-> NormalizedRow(r.row, column_names),
                                       cols |-> Len(column_names')])
        /\ handed' = Handed(0)
        /\ UNCHANGED <<header_rows, multi_row_headers, skip_empty_rows, chunk_size,
                       header_data, it_i, source, fills, table, tb_call,
                       column_types, type_calls, iterations, psvars, pvvars, cvvars>>

\* next(generator) in the stream loop, upstream is exhausted: StopIteration
NextStop ==
    LET r == NextFromStream(it_chunk, stream, skip_empty_rows)
    IN  /\ InStreamLoop
        /\ ~r.found
        /\ buffer' = IF it_pc = "buf" THEN <<>> ELSE buffer
        /\ it_pc' = "done"
        /\ it_chunk' = <<>>
        /\ stream' = <<>>
        /\ handed' = IF it_pc = "buf" THEN [handed EXCEPT !.idx = 0] ELSE handed
        /\ UNCHANGED <<header_rows, multi_row_headers, skip_empty_rows, chunk_size,
                       header_data, column_names, column_index_map, row_count,
                       it_i, source, yielded, fills, table, tb_call,
                       column_types, type_calls, iterations, psvars, pvvars, cvvars>>

\* the model's buffer, stream and names after the _fill_buffer() a
\* random-access method starts with
Filled ==
    FillLoop(buffer, stream, column_names, column_index_map, skip_empty_rows, chunk_size)

\* a random-access method (row, row_as_list, cell_value, column_values,
\* column_type) runs _fill_buffer
FillBuffer ==
    LET r == FillLoop(buffer, stream, column_names, column_index_map,
                      skip_empty_rows, chunk_size)
    IN  /\ fills < MaxFills
        /\ buffer' = r.buffer
        /\ stream' = r.stream
        /\ column_names' = r.names
        /\ column_index_map' = r.map
        /\ fills' = fills + 1
        /\ UNCHANGED <<header_rows, multi_row_headers, skip_empty_rows, chunk_size,
                       header_data, row_count, it_pc, it_i, it_chunk, source,
                       yielded, table, tb_call,
                   column_types, type_calls, handed, iterations, psvars, pvvars, cvvars>>

\* [row[col_idx] for row in self._buffer if col_idx < len(row)]
RECURSIVE ColumnCells(_, _)
ColumnCells(buf, col_idx) ==
    IF buf = <<>> THEN <<>>
    ELSE IF col_idx < Len(Head(buf))
    THEN <<Head(buf)[col_idx + 1]>> \o ColumnCells(Tail(buf), col_idx)
    ELSE ColumnCells(Tail(buf), col_idx)

\* a list of cells as the values handed to profile_values
AsValues(cells) == [k \in 1..Len(cells) |-> [v |-> StrValue(cells[k]), n |-> 1]]

\* column_type without the test of the cache: the type is inferred at every call
ColumnTypeWithoutCache(cache, name, buf, col_idx) ==
    LET type == profile_values(AsValues(ColumnCells(buf, col_idx)), TRUE, TRUE)
    IN  [type |-> type, inferred |-> TRUE,
         cache |-> [n \in (DOMAIN cache) \cup {name} |-> IF n = name THEN type ELSE cache[n]]]

\* StreamingTabularDataModel.column_type for a known name, buf being the
\* buffer that _fill_buffer leaves: the type returned, whether it was
\* inferred by this call, and self._column_types after the call
column_type(cache, name, buf, col_idx) ==
    IF name \in DOMAIN cache
    THEN [type |-> cache[name], inferred |-> FALSE, cache |-> cache]
    ELSE LET type == profile_values(AsValues(ColumnCells(buf, col_idx)), TRUE, TRUE)
         IN  [type |-> type, inferred |-> TRUE,
              cache |-> [n \in (DOMAIN cache) \cup {name} |->
                            IF n = name THEN type ELSE cache[n]]]

\* model.column_type(name) for a name of the index map (any other name raises
\* ValueError and changes nothing); _fill_buffer runs only when the type is
\* not in the cache
ColumnType ==
    /\ Len(type_calls) < MaxTypeCalls
    /\ \E name \in DOMAIN column_index_map :
         \E filled \in {FillLoop(buffer, stream, column_names, column_index_map,
                                 skip_empty_rows, chunk_size)} :
           \E r \in {column_type(column_types, name, filled.buffer, column_index_map[name])} :
              /\ column_types' = r.cache
              /\ type_calls' = Append(type_calls, [name |-> name, type |-> r.type,
                                                   inferred |-> r.inferred])
              /\ buffer' = IF r.inferred THEN filled.buffer ELSE buffer
              /\ stream' = IF r.inferred THEN filled.stream ELSE stream
              /\ column_names' = IF r.inferred THEN filled.names ELSE column_names
              /\ column_index_map' = IF r.inferred THEN filled.map ELSE column_index_map
    /\ UNCHANGED <<header_rows, multi_row_headers, skip_empty_rows, chunk_size,
                   header_data, row_count, it_pc, it_i, it_chunk, source,
                   yielded, fills, table, tb_call, handed, iterations,
                   psvars, pvvars, cvvars>>

\* model.row_as_list(index): after _fill_buffer() the list object held in the
\* buffer at index is returned; ValueError when index is out of range
RowAsList ==
    \E index \in 0..MaxRows :
        /\ fills < MaxFills
        /\ buffer' = Filled.buffer
        /\ stream' = Filled.stream
        /\ column_names' = Filled.names
        /\ column_index_map' = Filled.map
        /\ fills' = fills + 1
        /\ handed' = IF index < Len(Filled.buffer) THEN Handed(index + 1) ELSE handed
        /\ UNCHANGED <<header_rows, multi_row_headers, skip_empty_rows, chunk_size,
                       header_data, row_count, it_pc, it_i, it_chunk, source,
                       yielded, table, tb_call, column_types, type_calls, iterations,
                       psvars, pvvars, cvvars>>

\* the value a consumer writes into a row it holds
Mark == <<"X">>

\* the consumer appends a cell to the row object it was handed; a list object
\* that is an element of self._buffer is changed in the buffer as well
MutateHanded ==
    /\ handed.held
    /\ ~handed.mutated
    /\ handed' = [handed EXCEPT !.mutated = TRUE]
    /\ buffer' = IF handed.idx > 0
                 THEN [buffer EXCEPT ![handed.idx] = Append(buffer[handed.idx], Mark)]
                 ELSE buffer
    /\ UNCHANGED <<stream, header_rows, multi_row_headers, skip_empty_rows, chunk_size,
                   header_data, column_names, column_index_map, row_count,
                   it_pc, it_i, it_chunk, source, yielded, fills, table, tb_call,
                   column_types, type_calls, iterations, psvars, pvvars, cvvars>>

\* ------------------------------------- accessors of the TabularDataModel
\* the row indexes passed: every valid one, and some on either side
RowIndexes == (-(MaxRows + 1))..(MaxRows + 1)

\* the names looked up: the table's own and some that may be absent
LookedUpNames ==
    {table.column_names[k] : k \in 1..Len(table.column_names)}
        \cup {EmptyCell, WordCell} \cup {ColumnName(k) : k \in 0..MaxRows}

\* the table was constructed (the constructor raised on empty data)
TableConstructed == table.status = "ok"

\* an accessor leaves the table as it is: one call per behaviour shows all
Called(op, index, name, ret) ==
    /\ TableConstructed
    /\ tb_call = NoCall
    /\ tb_call' = [op |-> op, index |-> index, name |-> name, ret |-> ret]
    /\ UNCHANGED <<stream, header_rows, multi_row_headers, skip_empty_rows, chunk_size,
                   header_data, column_names, column_index_map, buffer, row_count,
                   it_pc, it_i, it_chunk, source, yielded, fills, table,
                   column_types, type_calls, handed, iterations, psvars, pvvars, cvvars>>

\* table.row(i)
TableRow == \E i \in RowIndexes : Called("row", i, <<>>, table_row(table, i))

\* table.row_as_list(i)
TableRowAsList == \E i \in RowIndexes : Called("row_as_list", i, <<>>, row_as_list(table, i))

\* table.row_as_tuple(i)
TableRowAsTuple == \E i \in RowIndexes : Called("row_as_tuple", i, <<>>, row_as_tuple(table, i))

\* table.column_index(name)
TableColumnIndex == \E n \in LookedUpNames : Called("column_index", 0, n, column_index(table, n))

TableNext ==
    \/ TableRow
    \/ TableRowAsList
    \/ TableRowAsTuple
    \/ TableColumnIndex

SpecTable == Init /\ [][TableNext]_vars

\* -------------------------------------------------- DsvHelper.parse_stream
\* the footer lag short by one line
LagReadyOffByOne(buf, f) == Len(buf) >= f

\* len(buffer) > skip_footer_rows
LagReady(buf, f) == Len(buf) > f

\* a chunk taken as full one row late
ChunkFullOneLate(chunk, cs) == Len(chunk) = cs + 1

\* len(chunk) == chunk_size
ChunkFull(chunk, cs) == Len(chunk) = cs

\* one pass of the body of `for line in stream`, on the loop state st; once a
\* chunk is full the generator is suspended at its yield and reads no further
LineStep(st, line, f, cs) ==
    IF st.full THEN st
    ELSE IF f > 0
    THEN LET buf2 == Append(st.buffer, line)
         IN  IF LagReady(buf2, f)
             THEN [chunk  |-> Append(st.chunk, Head(buf2)),
                   buffer |-> Tail(buf2),
                   pos    |-> line,
                   full   |-> ChunkFull(Append(st.chunk, Head(buf2)), cs)]
             ELSE [chunk |-> st.chunk, buffer |-> buf2, pos |-> line, full |-> FALSE]
    ELSE [chunk  |-> Append(st.chunk, line),
          buffer |-> st.buffer,
          pos    |-> line,
          full   |-> ChunkFull(Append(st.chunk, line), cs)]

\* the loop over the lines lo..hi, as the composition of its passes
RECURSIVE ReadLines(_, _, _, _, _)
ReadLines(st, lo, hi, f, cs) ==
    IF lo > hi THEN st
    ELSE IF lo = hi THEN LineStep(st, lo, f, cs)
    ELSE LET mid  == (lo + hi) \div 2
             left == ReadLines(st, lo, mid, f, cs)
         IN  IF left.full THEN left ELSE ReadLines(left, mid + 1, hi, f, cs)

\* the reading loops of parse_stream, run from a resumption up to the next
\* len(chunk) == chunk_size (full) or to the end of the file (eof)
ReadChunk(pos, buf, n, f, cs) ==
    LET st == ReadLines([chunk |-> <<>>, buffer |-> buf, pos |-> pos, full |-> FALSE],
                        pos + 1, n, f, cs)
    IN  [chunk |-> st.chunk, pos |-> st.pos, buffer |-> st.buffer, eof |-> ~st.full]

\* the three parameter tests at the head of the body of parse_stream pass
ParametersValid ==
    /\ ps_delimiter # <<>>
    /\ ps_chunk_size >= MinChunkSize
    /\ ps_skip_header_rows >= 0
    /\ ps_skip_footer_rows >= 0

\* the header-skipping readline() loop ran to its end without hitting the end of file
HeaderSkipped == ps_lines >= ps_skip_header_rows

\* what the generator reads on its next resumption
PsRead ==
    ReadChunk(IF ps_pc = "start" THEN ps_skip_header_rows ELSE ps_pos,
              ps_buffer, ps_lines, ps_skip_footer_rows, ps_chunk_size)

\* next(generator): a chunk is yielded, a full one from inside the loop or the
\* residual one after it
PsYield ==
    /\ ~ps_abandoned
    /\ ParametersValid
    /\ \/ ps_pc = "start" /\ HeaderSkipped
       \/ ps_pc = "loop"
    /\ PsRead.chunk # <<>>
    /\ ps_out' = Append(ps_out, PsRead.chunk)
    /\ ps_pos' = PsRead.pos
    /\ ps_buffer' = PsRead.buffer
    /\ ps_pc' = IF PsRead.eof THEN "tail" ELSE "loop"
    /\ ps_file' = "open"
    /\ UNCHANGED <<ps_lines, ps_skip_header_rows, ps_skip_footer_rows, ps_chunk_size,
                   ps_delimiter, ps_abandoned, ps_held, svars, pvvars, cvvars>>

\* next(generator): the generator returns (StopIteration) and the file is closed
PsStop ==
    /\ ~ps_abandoned
    /\ ParametersValid
    /\ \/ ps_pc = "start" /\ ~HeaderSkipped
       \/ ps_pc \in {"start", "loop"} /\ HeaderSkipped /\ PsRead.chunk = <<>>
       \/ ps_pc = "tail"
    /\ ps_pc' = "done"
    /\ ps_pos' = IF ps_pc = "tail" THEN ps_pos
                 ELSE IF HeaderSkipped THEN PsRead.pos ELSE ps_lines
    /\ ps_buffer' = IF ps_pc = "tail" \/ ~HeaderSkipped THEN ps_buffer ELSE PsRead.buffer
    /\ ps_file' = "closed"
    /\ UNCHANGED <<ps_lines, ps_skip_header_rows, ps_skip_footer_rows, ps_chunk_size,
                   ps_out, ps_delimiter, ps_abandoned, ps_held, svars, pvvars, cvvars>>

\* the first next(generator): the body starts to run and a parameter test
\* raises ValueError, before open() is reached
PsRaise ==
    /\ ~ps_abandoned
    /\ ps_pc = "start"
    /\ ~ParametersValid
    /\ ps_pc' = "raised"
    /\ UNCHANGED <<ps_lines, ps_skip_header_rows, ps_skip_footer_rows, ps_chunk_size,
                   ps_pos, ps_buffer, ps_out, ps_delimiter, ps_file, ps_abandoned, ps_held,
                   svars, pvvars, cvvars>>

\* the generator has not ended: it has not started, or is suspended at a yield
PsSuspended == ps_pc \in {"start", "loop", "tail"}

\* the consumer stops calling next() before the generator has ended; the
\* generator stays referenced (by the consumer's variable, or by the _stream
\* field of a StreamingTabularDataModel built over it) or not
PsAbandon ==
    /\ ~ps_abandoned
    /\ PsSuspended
    /\ ps_abandoned' = TRUE
    /\ ps_held' \in BOOLEAN
    /\ UNCHANGED <<ps_lines, ps_skip_header_rows, ps_skip_footer_rows, ps_chunk_size,
                   ps_pos, ps_buffer, ps_pc, ps_out, ps_delimiter, ps_file,
                   svars, pvvars, cvvars>>

\* the last reference to the abandoned generator goes away
PsRelease ==
    /\ ps_abandoned
    /\ ps_held
    /\ ps_held' = FALSE
    /\ UNCHANGED <<ps_lines, ps_skip_header_rows, ps_skip_footer_rows, ps_chunk_size,
                   ps_pos, ps_buffer, ps_pc, ps_out, ps_delimiter, ps_file, ps_abandoned,
                   svars, pvvars, cvvars>>

\* the unreferenced generator is finalized: GeneratorExit is raised at the
\* yield it is suspended at and the with statement closes the file; a
\* generator that never started has opened no file
PsFinalize ==
    /\ ~ps_held
    /\ PsSuspended
    /\ ps_pc' = "closed"
    /\ ps_file' = IF ps_pc = "start" THEN ps_file ELSE "closed"
    /\ UNCHANGED <<ps_lines, ps_skip_header_rows, ps_skip_footer_rows, ps_chunk_size,
                   ps_pos, ps_buffer, ps_out, ps_delimiter, ps_abandoned, ps_held,
                   svars, pvvars, cvvars>>

PsInit ==
    /\ NoModels
    /\ NoProfile
    /\ NoConversion
    /\ \E n \in 0..(MinChunkSize + ExtraLines + ExtraLines), h \in (-1)..MaxSkip,
          f \in (-1)..MaxSkip, cs \in (MinChunkSize - 1)..(MinChunkSize + ExtraChunkSize),
          delimiter \in {<<>>, Comma} :
         StreamOpened(n, h, f, cs, delimiter)

PsNext ==
    \/ PsYield
    \/ PsStop
    \/ PsRaise
    \/ PsAbandon
    \/ PsRelease
    \/ PsFinalize

SpecParseStream == PsInit /\ [][PsNext]_vars

\* an unreferenced generator is finalized at once (reference counting); when
\* the consumer calls next() again or lets go of the generator is its own affair
SpecParseStreamLive == SpecParseStream /\ WF_vars(PsFinalize)

\* -------------------------------------------------------- profile_values
\* profile_values(values, trim=trim, use_incremental_typecheck=True)
ProfileIncremental ==
    /\ pv_incremental = NotProfiled
    /\ pv_incremental' = profile_values(pv_values, pv_trim, TRUE)
    /\ UNCHANGED <<pv_values, pv_trim, pv_full, cvvars, svars, psvars>>

\* profile_values(values, trim=trim, use_incremental_typecheck=False)
ProfileFull ==
    /\ pv_full = NotProfiled
    /\ pv_full' = profile_values(pv_values, pv_trim, FALSE)
    /\ UNCHANGED <<pv_values, pv_trim, pv_incremental, cvvars, svars, psvars>>

ProfileInit ==
    /\ NoModels
    /\ NoStream
    /\ NoConversion
    /\ \E runs \in RunLists, trim \in BOOLEAN : Profiling(runs, trim)

ProfileNext ==
    \/ ProfileIncremental
    \/ ProfileFull

SpecProfile == ProfileInit /\ [][ProfileNext]_vars

\* ------------------------------------------------------ String.to_<type>
\* String.to_bool(value, default=default, trim=trim)
ToBool ==
    /\ cv_bool = Unset
    /\ cv_bool' = to_bool(cv_value, cv_default, cv_trim)
    /\ UNCHANGED <<cv_value, cv_default, cv_trim, cv_int, cv_float, cv_type, pvvars, svars, psvars>>

\* String.to_int(value, default=default, trim=trim)
ToInt ==
    /\ cv_int = Unset
    /\ cv_int' = to_int(cv_value, cv_default, cv_trim)
    /\ UNCHANGED <<cv_value, cv_default, cv_trim, cv_bool, cv_float, cv_type, pvvars, svars, psvars>>

\* String.to_float(value, default=default, trim=trim)
ToFloat ==
    /\ cv_float = Unset
    /\ cv_float' = to_float(cv_value, cv_default, cv_trim)
    /\ UNCHANGED <<cv_value, cv_default, cv_trim, cv_bool, cv_int, cv_type, pvvars, svars, psvars>>

\* String.infer_type(value, trim=trim)
InferType ==
    /\ cv_type = NotProfiled
    /\ cv_type' = infer_type(cv_value, cv_trim)
    /\ UNCHANGED <<cv_value, cv_default, cv_trim, cv_bool, cv_int, cv_float, pvvars, svars, psvars>>

ConvertInit ==
    /\ NoModels
    /\ NoStream
    /\ NoProfile
    /\ \E v \in ConvertedValues, d \in DefaultValues, trim \in BOOLEAN : Converting(v, d, trim)

ConvertNext ==
    \/ ToBool
    \/ ToInt
    \/ ToFloat
    \/ InferType

SpecConvert == ConvertInit /\ [][ConvertNext]_vars

Next ==
    \/ Iter
    \/ NextBuffered
    \/ NextStreamed
    \/ NextStop
    \/ FillBuffer

Spec == Init /\ [][Next]_vars

\* the streaming model with column_type among its operations
TypedNext ==
    \/ Iter
    \/ NextBuffered
    \/ NextStreamed
    \/ NextStop
    \/ ColumnType

SpecColumnType == Init /\ [][TypedNext]_vars

\* the consumer starts iterations one after another
ReiterateNext ==
    \/ Iter
    \/ IterAgain
    \/ NextBuffered
    \/ NextStreamed
    \/ NextStop

SpecReiterate == Init /\ [][ReiterateNext]_vars

\* the consumer iterates, asks for rows and writes into the rows it holds
ConsumerNext ==
    \/ Iter
    \/ NextBuffered
    \/ NextStreamed
    \/ NextStop
    \/ RowAsList
    \/ MutateHanded

SpecConsumer == Init /\ [][ConsumerNext]_vars

\* ------------------------- upstream chunks larger than the model's chunk_size
\* the k-th row of a long source; one row in every MinChunkSize \div 2 is blank
LargeRow(k) == IF k % (MinChunkSize \div 2) = 0 THEN RowB ELSE <<IntToStr(k)>>

\* a chunk of n rows, the first being the row numbered from
LargeChunk(from, n) == [k \in 1..n |-> LargeRow(from + k - 1)]

\* an upstream iterator of a chunk of a rows followed by a chunk of b rows
LargeStream(a, b) ==
    <<LargeChunk(1, a)>> \o (IF b > 0 THEN <<LargeChunk(a + 1, b)>> ELSE <<>>)

\* no in-memory table is built beside the streaming model
NoTable ==
    /\ table = TabularDataModel(<<>>, 0, 1, TRUE)
    /\ tb_call = NoCall

LargeInit ==
    /\ \E a \in {1, MinChunkSize, MinChunkSize + LargeExtra + 1},
          b \in {0, MinChunkSize - 1, MinChunkSize + LargeExtra},
          h \in 0..1, sk \in BOOLEAN :
         StreamingConstructed(LargeStream(a, b), h, 1, sk)
    /\ NoTable
    /\ NoStream
    /\ NoProfile
    /\ NoConversion

SpecLargeChunks == LargeInit /\ [][Next]_vars

\* =================================================================== claims
\* the source rows that follow the header rows
DataRows == SubSeq(source, Min(header_rows, Len(source)) + 1, Len(source))

\* the source rows taken as header rows
RawHeader == SubSeq(source, 1, Min(header_rows, Len(source)))

YieldedRows == [k \in 1..Len(yielded) |-> yielded[k].row]

\* y is the source row r, possibly right-padded with empty cells
IsPaddingOf(y, r) ==
    /\ Len(y) >= Len(r)
    /\ \A k \in 1..Len(y) : y[k] = IF k <= Len(r) THEN r[k] ELSE <<>>

\* ys is rows with nothing but all-blank rows left out, in order, cell by cell
RECURSIVE KeepsAllNonBlank(_, _)
KeepsAllNonBlank(ys, rows) ==
    IF rows = <<>> THEN ys = <<>>
    ELSE \/ /\ ys # <<>>
            /\ IsPaddingOf(Head(ys), Head(rows))
            /\ KeepsAllNonBlank(Tail(ys), Tail(rows))
         \/ /\ AllBlank(Head(rows))
            /\ KeepsAllNonBlank(ys, Tail(rows))

\* C1: every row produced by iteration has width equal to column_count at the
\* moment it is yielded, the rows carried into the buffer by construction included.
C1_YieldedWidthIsColumnCount ==
    \A k \in 1..Len(yielded) : Len(yielded[k].row) = yielded[k].cols

\* C2: a complete iteration yields the source rows that follow the header rows,
\* in source order, none twice, no header row among them, and omits no row that
\* has a non-blank cell.
C2_CompleteIterationKeepsRows ==
    it_pc = "done" => KeepsAllNonBlank(YieldedRows, DataRows)

\* C6: with skip_empty_rows=True no yielded row has every cell empty or
\* whitespace-only, the rows buffered by construction included.
C6_NoBlankRowYielded ==
    skip_empty_rows => \A k \in 1..Len(yielded) : ~AllBlank(yielded[k].row)

\* C7: after an iteration has run to completion (upstream exhausted) the
\* internal buffer is empty.
C7_BufferEmptyAfterIteration ==
    it_pc = "done" => buffer = <<>>

\* ---- C8
NamesNonEmpty(names) == \A k \in 1..Len(names) : names[k] # <<>>

IndexValid(names, map) ==
    \A k \in 1..Len(names) :
        /\ names[k] \in DOMAIN map
        /\ map[names[k]] \in 0..(Len(names) - 1)
        /\ names[map[names[k]] + 1] = names[k]

\* the cell at position i of the first row of the processed header hdata names
\* column i: when it is empty or whitespace-only the name is column_<i>
PlaceholderNamed(names, hdata) ==
    hdata # <<>> =>
        \A i \in 1..Len(hdata[1]) :
            Strip(hdata[1][i]) = <<>> => names[i] = ColumnName(i - 1)

RECURSIVE JoinNonEmpty(_, _, _)
JoinNonEmpty(rows, j, n) ==
    IF n = 0 THEN <<>>
    ELSE LET prev == JoinNonEmpty(rows, j, n - 1)
             cell == IF j <= Len(rows[n]) THEN rows[n][j] ELSE <<>>
         IN  IF cell = <<>> THEN prev
             ELSE IF prev = <<>> THEN cell
             ELSE prev \o <<"_">> \o cell

ExpectedMergedName(j) ==
    LET joined == Strip(CollapseWs(JoinNonEmpty(RawHeader, j, Len(RawHeader))))
    IN  IF joined # <<>> THEN joined ELSE ColumnName(j - 1)

\* C9: with header_rows > 1 (all of them merged) the name of column j is the
\* non-empty cells at position j, top to bottom, joined by a single underscore;
\* an empty cell adds neither text nor an underscore.
C9_MergedNameJoinsNonEmptyCells ==
    (/\ header_rows > 1
     /\ multi_row_headers = header_rows
     /\ Len(RawHeader) = header_rows
     /\ table.status = "ok")
    => \A j \in 1..MaxWidth(RawHeader) :
          /\ column_names[j] = ExpectedMergedName(j)
          /\ table.column_names[j] = ExpectedMergedName(j)

\* ---- C10
FirstIndexOf(names, n) ==
    CHOOSE i \in 0..(Len(names) - 1) :
        /\ names[i + 1] = n
        /\ \A j \in 0..(Len(names) - 1) : names[j + 1] = n => i <= j

ReturnsFirstIndex(names, map) ==
    \A k \in 1..Len(names) : map[names[k]] = FirstIndexOf(names, names[k])

\* C10: column_index(name) is the first position of name in column_names, in
\* both models, with duplicate header names and with names added by growth.
C10_ColumnIndexIsFirstOccurrence ==
    /\ ReturnsFirstIndex(column_names, column_index_map)
    /\ table.status = "ok" => ReturnsFirstIndex(table.column_names, table.column_index_map)

\* ---- C3
PsEmitted == Flatten(ps_out)

\* C3: parse_stream over a file of `total` lines yields, over all chunks,
\* total - H - F rows when total >= H + F and none otherwise; none of the first
\* H and none of the last F lines is ever emitted.
C3_StreamSkipsHeaderAndFooter ==
    /\ \A k \in 1..Len(PsEmitted) :
          /\ PsEmitted[k] > ps_skip_header_rows
          /\ PsEmitted[k] <= ps_lines - ps_skip_footer_rows
    /\ ps_pc = "done" =>
          Len(PsEmitted) = IF ps_lines >= ps_skip_header_rows + ps_skip_footer_rows
                           THEN ps_lines - ps_skip_header_rows - ps_skip_footer_rows
                           ELSE 0

\* a stream with header and footer skipping ended after more than one chunk
C3_Witness ==
    /\ ps_pc = "done"
    /\ ps_skip_header_rows > 0
    /\ ps_skip_footer_rows > 0
    /\ Len(ps_out) > 1

\* ---- C4
\* C4: for every list, profile_values with use_incremental_typecheck=True and
\* with use_incremental_typecheck=False return the same DataType, also for
\* lists longer than the threshold, where a check point may return early.
C4_IncrementalAgreesWithFull ==
    (pv_incremental # NotProfiled /\ pv_full # NotProfiled) => pv_incremental = pv_full

\* ---- C5
\* the converter's result r follows the predicate: a value of type cls when
\* is_<type>_like(value) holds, the default otherwise, and never an exception
ConvertsAsPredicted(r, like, cls) ==
    r # Unset => IF like THEN r.t = cls ELSE r = cv_default

\* C5: for bool, int and float, to_<type>(v, default=d) returns a value of the
\* type when is_<type>_like(v) is true, returns d otherwise, and never raises.
C5_ConvertersFollowPredicates ==
    /\ ConvertsAsPredicted(cv_bool, is_bool_like(cv_value, cv_trim), "bool")
    /\ ConvertsAsPredicted(cv_int, is_int_like(cv_value, cv_trim), "int")
    /\ ConvertsAsPredicted(cv_float, is_float_like(cv_value, cv_trim), "float")

\* the data rows of the source that construction keeps, in order
KeptRows == SelectRows(DataRows, ~skip_empty_rows)

\* the call in tb_call was made with a row index inside 0..row_count-1
CalledInRange(op) ==
    /\ tb_call.op = op
    /\ 0 <= tb_call.index
    /\ tb_call.index < table.rows

\* C11: for every constructed in-memory table and every row index i with
\* 0 <= i < row_count, row_as_list(i) has exactly column_count cells: it is
\* the i-th kept source row, right-padded with empty strings, never truncated.
C11_RowAsListWidthIsColumnCount ==
    CalledInRange("row_as_list") =>
        /\ tb_call.ret.kind = "list"
        /\ Len(tb_call.ret.val) = table.columns
        /\ table.rows = Len(KeptRows)
        /\ IsPaddingOf(tb_call.ret.val, KeptRows[tb_call.index + 1])

\* row_as_list returned a row that was padded because its source row was short
C11_Witness ==
    /\ CalledInRange("row_as_list")
    /\ Len(KeptRows[tb_call.index + 1]) < table.columns
    /\ Len(tb_call.ret.val) = table.columns

\* C12: in the in-memory model column_count is the maximum width of the data
\* rows that remain after empty-row filtering, and the header width when no
\* data row remains.
C12_ColumnCountIsKeptWidth ==
    TableConstructed =>
        table.columns = IF KeptRows # <<>> THEN MaxWidth(KeptRows) ELSE MaxWidth(RawHeader)

\* C19: in the in-memory model row(i), row_as_list(i) and row_as_tuple(i) raise
\* an out-of-range error for every i < 0 and every i >= row_count, and
\* column_index(name) raises a not-found error for every name that is not a
\* column name; no such call returns a row or an index.
C19_OutOfRangeAndUnknownNameFail ==
    /\ (/\ tb_call.op \in {"row", "row_as_list", "row_as_tuple"}
        /\ (tb_call.index < 0 \/ tb_call.index >= table.rows))
           => tb_call.ret.kind = "IndexError"
    /\ (/\ tb_call.op = "column_index"
        /\ \A k \in 1..Len(table.column_names) : table.column_names[k] # tb_call.name)
           => tb_call.ret.kind = "ValueError"

\* this step hands over or buffers a row of exactly n cells
ProcessesRowOfWidth(n) ==
    \/ /\ Len(yielded') = Len(yielded) + 1
       /\ Len(yielded'[Len(yielded')].row) = n
    \/ \E k \in (Len(buffer) + 1)..Len(buffer') : Len(buffer'[k]) = n

\* what every step of the streaming model does to column_names
ColumnsOnlyGrow ==
    LET n  == Len(column_names)
        n2 == Len(column_names')
    IN  /\ n2 >= n
        /\ \A k \in 1..n : column_names'[k] = column_names[k]
        /\ \A k \in (n + 1)..n2 : column_names'[k] = ColumnName(k - 1)
        /\ n2 > n => ProcessesRowOfWidth(n2)

\* C13: over any sequence of operations on a StreamingTabularDataModel
\* column_count never decreases, a name already at a position never changes,
\* a name added by growth at position i is column_<i>, and growth happens only
\* in a step that processes a row wider than the current column_count.
C13_ColumnCountOnlyGrows == [][ColumnsOnlyGrow]_vars

\* the names have grown past the header because a wider row was yielded
C13_Witness ==
    /\ header_rows > 0
    /\ Len(column_names) > MaxWidth(RawHeader)
    /\ Len(yielded) > 0
    /\ Len(yielded[Len(yielded)].row) = Len(column_names)
    /\ column_names[Len(column_names)] = ColumnName(Len(column_names) - 1)

\* C14: parse_stream rejects an empty delimiter, a chunk_size below 100 and a
\* negative skip_header_rows or skip_footer_rows with a parameter error raised
\* when parse_stream is called: once the call has returned with such a
\* parameter the error has been raised, no file was opened and no chunk yielded.
C14_ParameterErrorAtCall ==
    ~ParametersValid =>
        /\ ps_pc = "raised"
        /\ ps_file = "unopened"
        /\ ps_out = <<>>

\* C15: the file handle opened by parse_stream is closed when iteration has
\* terminated normally, and is eventually closed once the consumer has
\* abandoned iteration before exhaustion, whether the consumer holds the
\* generator itself or a StreamingTabularDataModel built over it.
C15_FileEventuallyClosed ==
    /\ [](ps_pc = "done" => ps_file # "open")
    /\ (ps_abandoned /\ ps_file = "open") ~> (ps_file = "closed")

\* the order in which the variants are tried
Precedence == <<"NONE", "BOOLEAN", "DATETIME", "TIME", "DATE", "INTEGER", "FLOAT", "EMPTY">>

\* the is_*_like predicate of a variant holds for v
IsLike(type, v, trim) ==
    CASE type = "NONE"     -> is_none_like(v, trim)
      [] type = "BOOLEAN"  -> is_bool_like(v, trim)
      [] type = "DATETIME" -> is_datetime_like(v, trim)
      [] type = "TIME"     -> is_time_like(v, trim)
      [] type = "DATE"     -> is_date_like(v, trim)
      [] type = "INTEGER"  -> is_int_like(v, trim)
      [] type = "FLOAT"    -> is_float_like(v, trim)
      [] type = "EMPTY"    -> is_empty_like(v, trim)

\* the first variant of Precedence whose predicate holds, STRING when none does
FirstLike(v, trim) ==
    LET holding == {k \in 1..Len(Precedence) : IsLike(Precedence[k], v, trim)}
    IN  IF holding = {} THEN "STRING"
        ELSE Precedence[CHOOSE k \in holding : \A j \in holding : k <= j]

TemporalTypes == {"DATETIME", "TIME", "DATE"}

\* C16: infer_type(value) returns the first variant, in the order NONE,
\* BOOLEAN, DATETIME, TIME, DATE, INTEGER, FLOAT, EMPTY, whose is_*_like
\* predicate holds for value, and STRING when none holds; a text accepted by a
\* temporal predicate and by is_int_like is classified as a temporal type.
C16_InferTypeFollowsPrecedence ==
    cv_type # NotProfiled =>
        /\ cv_type = FirstLike(cv_value, cv_trim)
        /\ (/\ is_int_like(cv_value, cv_trim)
            /\ \E t \in TemporalTypes : IsLike(t, cv_value, cv_trim)
            /\ ~is_none_like(cv_value, cv_trim)
            /\ ~is_bool_like(cv_value, cv_trim))
               => cv_type \in TemporalTypes

\* infer_type classified an integer-like text as a time
C16_Witness ==
    /\ cv_type = "TIME"
    /\ cv_value.t = "str"
    /\ is_int_like(cv_value, cv_trim)

\* the variants the elements of the profiled list classify as
ElementTypes == {infer_type(pv_values[k].v, pv_trim) : k \in 1..Len(pv_values)}

\* every element of the profiled list that is not empty-like is integer-like
AllDigitValues ==
    \A k \in 1..Len(pv_values) :
        is_empty_like(pv_values[k].v, pv_trim) \/ is_int_like(pv_values[k].v, pv_trim)

\* the all-digit resolution, as a statement about a result r of profile_values
ResolvesAllDigit(r, types) ==
    /\ (/\ types \subseteq (TemporalTypes \cup {"INTEGER", "EMPTY"})
        /\ Cardinality(types \ {"EMPTY"}) > 1
        /\ AllDigitValues)
           => r = "INTEGER"
    /\ \A t \in TemporalTypes : types \ {"EMPTY"} = {t} => r = t
    /\ (/\ types \cap TemporalTypes # {}
        /\ types \cap {"STRING", "FLOAT"} # {})
           => r = "MIXED"

\* C17: profile_values resolves all-digit ambiguity: when every element is
\* DATE, TIME, DATETIME, INTEGER or EMPTY, the non-empty ones are not all of one
\* type and all are integer-like, the result is INTEGER; when all non-empty
\* elements are of one temporal type the result is that type; when a
\* non-numeric string or a float stands among temporal elements it is MIXED.
C17_AllDigitResolution ==
    \A types \in {ElementTypes} :
        /\ pv_incremental # NotProfiled => ResolvesAllDigit(pv_incremental, types)
        /\ pv_full # NotProfiled => ResolvesAllDigit(pv_full, types)

\* the typed variants a column can be inferred as
TypedVariants == {"INTEGER", "FLOAT", "BOOLEAN", "DATE", "DATETIME", "TIME"}

\* a list of cells of one typed variant, empty cells and none-like cells is
\* profiled as that variant
NoneCountsAsEmpty(r, types) ==
    \A t \in TypedVariants :
        (t \in types /\ types \subseteq {t, "EMPTY", "NONE"}) => r = t

\* C18: column type inference treats none-like cells like empty cells: a
\* column whose cells are each of one type T (INTEGER, FLOAT, BOOLEAN, DATE,
\* DATETIME or TIME), empty or none-like, with at least one cell of type T, is
\* inferred as T.
C18_NoneLikeCountsAsEmpty ==
    \A types \in {ElementTypes} :
        /\ pv_incremental # NotProfiled => NoneCountsAsEmpty(pv_incremental, types)
        /\ pv_full # NotProfiled => NoneCountsAsEmpty(pv_full, types)

\* C20: column_type(name) runs type inference at most once per column over
\* the lifetime of a table: every call after the first returns the value
\* computed by the first call, also when the streaming model's buffer content
\* has changed in between.
C20_ColumnTypeInferredOnce ==
    \A i \in 1..Len(type_calls) : \A j \in (i + 1)..Len(type_calls) :
        type_calls[i].name = type_calls[j].name =>
            /\ ~type_calls[j].inferred
            /\ type_calls[j].type = type_calls[i].type

\* a second call for the same name returned the cached type although the
\* buffer now holds other cells, which would be profiled differently
C20_Witness ==
    /\ Len(type_calls) = 2
    /\ type_calls[1].name = type_calls[2].name
    /\ type_calls[2].type = type_calls[1].type
    /\ type_calls[1].name \in DOMAIN column_index_map
    /\ profile_values(AsValues(ColumnCells(buffer, column_index_map[type_calls[1].name])),
                      TRUE, TRUE) # type_calls[2].type

\* C28: in the in-memory model len(column_names) = column_count after
\* construction, whatever the header width and the data width: header wider
\* than every data row, data rows wider than the header, no data row at all.
C28_NamesCountIsColumnCount ==
    TableConstructed => Len(table.column_names) = table.columns

\* the rows an active iteration has yet to yield, as __iter__ would produce
\* them from this state: the rest of the buffer while the generator is in its
\* buffer loop, then the rest of its current chunk, then the upstream chunks
\* (the rows of the stream loop without those filtered under skip_empty_rows)
RemainingRows(buf, i, pc, chunk, strm) ==
    (IF pc = "buf" THEN SubSeq(buf, i + 1, Len(buf)) ELSE <<>>)
        \o SelectRows(chunk \o Flatten(strm), ~skip_empty_rows)

\* the same rows, up to right-padding with empty cells
SameRowsUpToPadding(xs, ys) ==
    /\ Len(xs) = Len(ys)
    /\ \A k \in 1..Len(xs) : IsPaddingOf(xs[k], ys[k]) \/ IsPaddingOf(ys[k], xs[k])

\* a random-access call made while the generator is suspended between two
\* of its steps leaves the rows it has yet to yield as they were
FillKeepsRemainingRows ==
    (fills' # fills /\ it_pc \in {"buf", "stream"}) =>
        SameRowsUpToPadding(RemainingRows(buffer', it_i', it_pc', it_chunk', stream'),
                            RemainingRows(buffer, it_i, it_pc, it_chunk, stream))

\* C30: if a random-access method (row, row_as_list, cell_value, column_values
\* or column_type) is called between two steps of an active iteration, the
\* iteration still yields every remaining non-filtered source row exactly
\* once and in source order.
C30_RandomAccessKeepsIteration == [][FillKeepsRemainingRows]_vars

\* a header cell that still has text after whitespace normalisation
HasText(cell) == Strip(CollapseWs(cell)) # <<>>

\* the normalised non-empty cells of a header row, in order
NonEmptyCells(row) ==
    LET kept == SelectSeq(row, HasText)
    IN  [k \in 1..Len(kept) |-> Strip(CollapseWs(kept[k]))]

\* the model was constructed over one header row that has an empty cell beside
\* a named one, and no data row has been processed since
FreshWithEmptyHeaderCell ==
    /\ header_rows = 1
    /\ Len(header_data) = 1
    /\ \E i \in 1..Len(header_data[1]) : ~HasText(header_data[1][i])
    /\ \E i \in 1..Len(header_data[1]) : HasText(header_data[1][i])
    /\ it_pc = "idle"
    /\ fills = 0

\* C22: in the streaming model a header row that contains an empty cell gives
\* column_names made of the non-empty header cells only (the header
\* Name,,City gives [Name, City]); data cells are then mapped to those names
\* by position.
C22_EmptyHeaderCellsOmitted ==
    FreshWithEmptyHeaderCell => column_names = NonEmptyCells(header_data[1])

\* C23: every chunk yielded by parse_stream is non-empty; every chunk except
\* the last has exactly chunk_size rows and the last has between 1 and
\* chunk_size rows; the chunks concatenated are the rows of the file's
\* non-skipped lines in source order, with and without footer skipping.
C23_ChunksFullAndInOrder ==
    /\ \A k \in 1..Len(ps_out) :
          /\ Len(ps_out[k]) >= 1
          /\ Len(ps_out[k]) <= ps_chunk_size
          /\ k < Len(ps_out) => Len(ps_out[k]) = ps_chunk_size
    /\ \A k \in 1..Len(PsEmitted) : PsEmitted[k] = ps_skip_header_rows + k
    /\ ps_pc = "done" =>
          Len(PsEmitted) = Max(0, ps_lines - ps_skip_header_rows - ps_skip_footer_rows)

\* a stream with footer skipping ended after a full chunk and a shorter last one
C23_Witness ==
    /\ ps_pc = "done"
    /\ ps_skip_footer_rows > 0
    /\ Len(ps_out) = 2
    /\ Len(ps_out[1]) = ps_chunk_size
    /\ Len(ps_out[2]) < ps_chunk_size
    /\ PsEmitted[Len(PsEmitted)] = ps_lines - ps_skip_footer_rows

\* the stream loop of __iter__ run over all the rows upstream still holds: the
\* rows it yields and the column names it ends with
RECURSIVE IterateStream(_, _, _)
IterateStream(rows, names, skip) ==
    IF rows = <<>> THEN [rows |-> <<>>, names |-> names]
    ELSE IF skip /\ AllBlank(Head(rows)) THEN IterateStream(Tail(rows), names, skip)
    ELSE LET rest == IterateStream(Tail(rows), GrowNames(names, Len(Head(rows))), skip)
         IN  [rows  |-> <<NormalizedRow(Head(rows), names)>> \o rest.rows,
              names |-> rest.names]

\* list(StreamingTabularDataModel(iter(strm), ...)): construction followed by
\* one uninterrupted iteration
CompleteIteration(strm, hrows, mrh, skip) ==
    LET s0 == InitializeFromStream(strm, hrows, mrh)
        r  == IterateStream(Flatten(s0.stream), s0.column_names, skip)
    IN  [rows |-> s0.buffer \o r.rows, names |-> r.names]

\* the upstream iterator that hands over the same rows in a single chunk
AsOneChunk(rows) == IF rows = <<>> THEN <<>> ELSE <<rows>>

\* C26: the rows a StreamingTabularDataModel yields, and its final
\* column_names, depend only on the concatenated rows of the upstream
\* iterator, not on the chunk boundaries: a completed iteration gives what the
\* same rows handed over in one chunk give.
C26_OutputIndependentOfChunking ==
    (it_pc = "done" /\ fills = 0) =>
        LET one == CompleteIteration(AsOneChunk(source), header_rows,
                                     multi_row_headers, skip_empty_rows)
        IN  /\ YieldedRows = one.rows
            /\ column_names = one.names

\* StreamingTabularDataModel.cell_value(name, row_index): the name is looked up
\* before the buffer is filled; the cell is taken from the buffered row as it is
cell_value(name, row_index) ==
    IF name \notin DOMAIN column_index_map THEN Raised("ValueError")
    ELSE IF row_index < 0 \/ row_index >= Len(Filled.buffer) THEN Raised("ValueError")
    ELSE LET cell == GetItem(Filled.buffer[row_index + 1], column_index_map[name])
         IN  IF cell.kind = "item" THEN Returned("str", cell.val) ELSE cell

\* StreamingTabularDataModel.row(index): the buffered row is padded to the
\* number of column names; a name that occurs twice keeps its last cell
model_row(index) ==
    IF index < 0 \/ index >= Len(Filled.buffer) THEN Raised("ValueError")
    ELSE LET names  == Filled.names
             padded == PadRow(Filled.buffer[index + 1], Len(names))
         IN  Returned("dict",
                 [n \in {names[k] : k \in 1..Len(names)} |->
                     padded[CHOOSE k \in 1..Len(names) :
                                /\ names[k] = n
                                /\ \A j \in 1..Len(names) : names[j] = n => j <= k]])

\* C29: in the streaming model, for every buffered row index i and every
\* column name n in column_names, cell_value(n, i) returns the same value as
\* row(i)[n], and neither call raises when the other returns a value.
C29_CellValueAgreesWithRow ==
    \A i \in 0..(Len(Filled.buffer) - 1) :
        \A k \in 1..Len(column_names) :
            LET n == column_names[k]
            IN  /\ (cell_value(n, i).kind = "str") = (model_row(i).kind = "dict")
                /\ cell_value(n, i).kind = "str" =>
                       cell_value(n, i).val = model_row(i).val[n]

\* C21: in every reachable state of a StreamingTabularDataModel the internal
\* buffer holds at most chunk_size rows, whatever the size of the chunks the
\* upstream iterator produces.
C21_BufferWithinChunkSize == Len(buffer) <= chunk_size

\* the rows a step takes from the upstream iterator
PulledRows ==
    SubSeq(Flatten(stream), 1, Len(Flatten(stream)) - Len(Flatten(stream')))

\* the rows a step appends to the buffer
AppendedRows == SubSeq(buffer', Len(buffer) + 1, Len(buffer'))

\* the positions of the pulled rows that are not filtered as empty rows
KeptPulled ==
    {k \in 1..Len(PulledRows) : ~(skip_empty_rows /\ AllBlank(PulledRows[k]))}

\* a _fill_buffer() step appends every pulled row that is not an empty row
\* filtered under skip_empty_rows, in order
FillKeepsPulledRows ==
    fills' # fills =>
        /\ Len(buffer') >= Len(buffer)
        /\ Cardinality(KeptPulled) = Len(AppendedRows)
        /\ \A k \in KeptPulled :
              IsPaddingOf(AppendedRows[Cardinality({j \in KeptPulled : j <= k})],
                          PulledRows[k])

\* C27: _fill_buffer (used by row, row_as_list, cell_value, column_values and
\* column_type) never discards data: every row it pulls from upstream is
\* either appended to the buffer or is an empty row filtered under
\* skip_empty_rows.
C27_FillBufferKeepsPulledRows == [][FillKeepsPulledRows]_vars

\* every yielded row can be given a source data row of its own that it is (a
\* right-padding of): no source row was yielded twice
YieldedAtMostOnce ==
    /\ Len(yielded) <= Len(DataRows)
    /\ \E f \in [1..Len(yielded) -> 1..Len(DataRows)] :
          /\ \A j, k \in 1..Len(yielded) : f[j] = f[k] => j = k
          /\ \A k \in 1..Len(yielded) : IsPaddingOf(yielded[k].row, DataRows[f[k]])

\* the number of rows yielded by the k-th iteration so far
YieldedBy(k) ==
    (IF k < Len(iterations) THEN iterations[k + 1].start ELSE Len(yielded))
        - iterations[k].start

\* an iteration started after a complete one yields no rows
NoRowsAfterComplete ==
    \A k \in 1..Len(iterations) : iterations[k].after_complete => YieldedBy(k) = 0

\* C24: a StreamingTabularDataModel is consumed once: over the lifetime of one
\* model, across any number of started iterations (run to completion or
\* abandoned midway), each source data row is yielded at most once, and an
\* iteration started after a complete one yields no rows.
C24_ConsumedOnce == YieldedAtMostOnce /\ NoRowsAfterComplete

\* a write of the consumer into the row it was handed leaves every row held in
\* the buffer as it was
WriteLeavesBuffer ==
    (handed.held /\ ~handed.mutated /\ handed'.mutated) => buffer' = buffer

\* C25: a row handed to the consumer by the streaming model (by iteration or
\* by row_as_list) is a copy: mutating it does not change any row held in the
\* model's internal buffer.
C25_HandedRowIsCopy == [][WriteLeavesBuffer]_vars

====
